---- MODULE Spec2Model ----
(***************************************************************************)
(* Model of PyInstaller/utils/hooks/django.py.                             *)
(*                                                                         *)
(* A Python str is the sequence of its tokens: the dot "." and the         *)
(* dot-free runs of characters between dots (identifiers), which is what   *)
(* split('.'), '.'.join, + and == can tell apart.  A list is a sequence, a *)
(* dict is a function whose DOMAIN is the set of keys present (so hasattr, *)
(* `in` and .get are questions about DOMAIN), and a path is the sequence   *)
(* of its components.  A dict that the code only walks with .values() is   *)
(* the sequence of its values in insertion order.                          *)
(***************************************************************************)
EXTENDS Integers, Sequences, FiniteSets, TLC

VARIABLES
    django_root_dir,  \* argument of django_dottedstring_imports
    toplevel,         \* what get_path_to_toplevel_modules(django_root_dir) returns
    environ0,         \* os.environ of a fresh isolated subprocess
    sys_path0,        \* sys.path of a fresh isolated subprocess
    settings,         \* django.conf.settings after django.setup()
    submodules,       \* hookutils.collect_submodules, as a function of the package
    pc,               \* position in django_dottedstring_imports
    sys_path,         \* sys.path of the running subprocess
    environ,          \* os.environ of the running subprocess
    setup_module,     \* DJANGO_SETTINGS_MODULE as read by django.setup()
    hiddenimports,    \* the local list
    result,           \* the returned list
    raised,           \* the exception that ended the call, or NoError
    prev,             \* outcome of the previous call with the same inputs
    fs,               \* the file system below manage_dir: path -> "file" | "dir"
    fpc,              \* position in django_find_root_dir
    files,            \* entries of manage_dir the for loop has not visited yet
    settings_dir      \* the local of django_find_root_dir; its return value

runVars == <<pc, sys_path, environ, setup_module, hiddenimports, result, raised, prev>>
inputVars == <<django_root_dir, toplevel, environ0, sys_path0, settings, submodules>>
findVars == <<fs, fpc, files, settings_dir>>
vars == <<django_root_dir, toplevel, environ0, sys_path0, settings, submodules,
          pc, sys_path, environ, setup_module, hiddenimports, result, raised, prev,
          fs, fpc, files, settings_dir>>

(***************************************************************************)
(* Python values                                                           *)
(***************************************************************************)
\* None: a value that is no str (no identifier of a str is spelled None)
None == <<"None">>
EmptyDict == <<>>
NoError == "NoError"

\* None, where the other values are paths (no path here has no components)
NoneDir == <<>>

\* truth value of a str-or-None (`if cl:`)
Truthy(v) == v # None /\ v # <<>>

\* hasattr(obj, name) on the settings object
HasAttr(obj, name) == name \in DOMAIN obj

\* attribute names a dict instance has: hasattr(d, name) for a dict d asks
\* for an attribute, never for a key
DictAttributes == {"clear", "copy", "fromkeys", "get", "items", "keys", "pop",
                   "popitem", "setdefault", "update", "values"}
DictHasAttr(d, name) == name \in DictAttributes

\* d.get(key, default)
Get(d, key, default) == IF key \in DOMAIN d THEN d[key] ELSE default

Range(s) == {s[i] : i \in DOMAIN s}

\* NoDuplicates(s): no value at two positions
NoDuplicates(s) == \A i, j \in DOMAIN s : s[i] = s[j] => i = j

\* the elements of a list, each at its first occurrence only
RECURSIVE FirstOccurrences(_, _)
FirstOccurrences(s, seen) ==
    IF s = <<>> THEN <<>>
    ELSE IF Head(s) \in seen THEN FirstOccurrences(Tail(s), seen)
         ELSE <<Head(s)>> \o FirstOccurrences(Tail(s), seen \cup {Head(s)})

\* all the lists holding each element of the list s exactly once
Orderings(s) ==
    LET once == FirstOccurrences(s, {})
        n == Len(once)
    IN  {[i \in 1..n |-> once[order[i]]] : order \in Permutations(1..n)}

(***************************************************************************)
(* str.split('.') and '.'.join                                             *)
(***************************************************************************)
Dot == "."

RECURSIVE Split(_)
Split(s) ==
    IF \E i \in DOMAIN s : s[i] = Dot
    THEN LET i == CHOOSE k \in DOMAIN s : s[k] = Dot /\ \A j \in 1..(k - 1) : s[j] # Dot
         IN  <<SubSeq(s, 1, i - 1)>> \o Split(SubSeq(s, i + 1, Len(s)))
    ELSE <<s>>

RECURSIVE Join(_)
Join(parts) ==
    IF Len(parts) = 0 THEN <<>>
    ELSE IF Len(parts) = 1 THEN parts[1]
    ELSE parts[1] \o <<Dot>> \o Join(Tail(parts))

\* _remove_class with the slice [0:1]: the first component only
RemoveClassFirst(class_name) ==
    LET parts == Split(class_name)
    IN  Join(SubSeq(parts, 1, 1))

\* _remove_class: '.'.join(class_name.split('.')[0:-1])
RemoveClass(class_name) ==
    LET parts == Split(class_name)
    IN  Join(SubSeq(parts, 1, Len(parts) - 1))

\* [f(x) for x in s]
RECURSIVE RemoveClassAll(_)
RemoveClassAll(s) ==
    IF s = <<>> THEN <<>> ELSE <<RemoveClass(Head(s))>> \o RemoveClassAll(Tail(s))

\* the literals '.templatetags', '.context_processors', '.settings'
Templatetags == <<".", "templatetags">>
ContextProcessors == <<".", "context_processors">>
DotSettings == <<".", "settings">>

\* os.path.basename of a path given by its components
Basename(path) == IF path = <<>> THEN <<>> ELSE path[Len(path)]

(***************************************************************************)
(* Inputs                                                                  *)
(***************************************************************************)
\* at most this many of the attributes the code guards with hasattr/getattr
\* are present in one settings object
MaxGuarded == 2

\* the same bound for the settings a call is repeated with
MaxGuardedAgain == 1

App == <<"a">>
DottedClass == <<"a", ".", "B">>
NestedClass == <<"a", ".", "b", ".", "C">>
BareClass == <<"C">>
FuncPath == <<"a", ".", "f">>
ModulePath == <<"a", ".", "b">>

TemplateEntries ==
    { [BACKEND |-> NestedClass],
      [BACKEND |-> DottedClass, OPTIONS |-> EmptyDict],
      [BACKEND |-> NestedClass, OPTIONS |-> [context_processors |-> <<FuncPath>>]],
      [OPTIONS |-> [context_processors |-> <<FuncPath>>]] }

CacheEntries ==
    { EmptyDict,
      [BACKEND |-> DottedClass],
      [BACKEND |-> BareClass, OPTIONS |-> [CLIENT_CLASS |-> NestedClass]] }

DatabaseEntries == { EmptyDict, [ENGINE |-> ModulePath] }

GuardedAttrs ==
    {"TEMPLATE_CONTEXT_PROCESSORS", "TEMPLATES", "CACHES", "STORAGES", "TEMPLATE_LOADERS",
     "AUTHENTICATION_BACKENDS", "DEFAULT_FILE_STORAGE", "FILE_UPLOAD_HANDLERS",
     "MIDDLEWARE_CLASSES", "MIDDLEWARE"}

AttrValues(name) ==
    CASE name = "TEMPLATE_CONTEXT_PROCESSORS" -> {<<FuncPath>>}
      [] name = "TEMPLATES" -> {<<>>} \cup {<<t>> : t \in TemplateEntries}
      [] name = "CACHES" -> {<<c>> : c \in CacheEntries}
      [] name = "STORAGES" -> {<<[BACKEND |-> NestedClass]>>}
      [] name = "TEMPLATE_LOADERS" -> {<<ModulePath>>}
      [] name = "AUTHENTICATION_BACKENDS" -> {<<DottedClass>>, <<BareClass>>}
      [] name = "DEFAULT_FILE_STORAGE" -> {None, NestedClass}
      [] name = "FILE_UPLOAD_HANDLERS" -> {<<DottedClass>>}
      [] name = "MIDDLEWARE_CLASSES" -> {<<NestedClass>>}
      [] name = "MIDDLEWARE" -> {<<DottedClass, NestedClass>>, <<BareClass>>}
      [] name = "INSTALLED_APPS" -> {<<>>, <<App, App>>}
      [] name = "ROOT_URLCONF" -> {ModulePath}
      [] name = "DATABASES" -> {<<d>> : d \in DatabaseEntries}

\* the objects that have exactly the attributes of names
RECURSIVE Objects(_)
Objects(names) ==
    IF names = {} THEN {EmptyDict}
    ELSE LET n == CHOOSE x \in names : TRUE
         IN  {(n :> v) @@ o : v \in AttrValues(n), o \in Objects(names \ {n})}

\* settings objects with at most n of the guarded attributes
SettingsSet(n) ==
    UNION { Objects({"INSTALLED_APPS"} \cup U \cup G) :
              U \in {{"ROOT_URLCONF", "DATABASES"}, {"ROOT_URLCONF"}, {"DATABASES"}},
              G \in {P \in SUBSET GuardedAttrs : Cardinality(P) <= n} }

\* what collect_submodules may return for one package
SubmoduleLists(package) == {<<>>, <<package>>}

\* the packages django_dottedstring_imports hands to collect_submodules
TemplatetagPackages(s) == {app \o Templatetags : app \in Range(s.INSTALLED_APPS)}

ProjectDir == << <<"p">>, <<"m">> >>
ParentDir == << <<"p">> >>
SiteDir == << <<"s">> >>
SettingsModules == {<<"m", ".", "settings">>, <<"x", ".", "y">>}
EnvValues == {EmptyDict} \cup {[DJANGO_SETTINGS_MODULE |-> m] : m \in SettingsModules}

(***************************************************************************)
(* django_dottedstring_imports                                             *)
(***************************************************************************)
\* the state in which a call starts, for the inputs drawn from the given sets
InitWith(Roots, Toplevels, Environs, SysPaths, Settings) ==
    /\ django_root_dir \in Roots
    /\ toplevel \in Toplevels
    /\ environ0 \in Environs
    /\ sys_path0 \in SysPaths
    /\ settings \in Settings
    /\ submodules \in [TemplatetagPackages(settings) ->
                         UNION {SubmoduleLists(q) : q \in TemplatetagPackages(settings)}]
    /\ \A q \in DOMAIN submodules : submodules[q] \in SubmoduleLists(q)
    /\ pc = "start"
    /\ sys_path = sys_path0
    /\ environ = environ0
    /\ setup_module = None
    /\ hiddenimports = <<>>
    /\ result = <<>>
    /\ raised = NoError
    /\ prev = [ran |-> FALSE]
    /\ fs = EmptyDict
    /\ fpc = "idle"
    /\ files = {}
    /\ settings_dir = NoneDir

Init == InitWith({ProjectDir}, {ParentDir}, {EmptyDict}, {<<SiteDir>>}, SettingsSet(MaxGuarded))

\* a step of the function body that leaves the process environment alone
Step(from, to, imports) ==
    /\ pc = from
    /\ pc' = to
    /\ hiddenimports' = imports
    /\ UNCHANGED <<sys_path, environ, setup_module, result, raised, prev>>
    /\ UNCHANGED inputVars
    /\ UNCHANGED findVars

\* a step at which the function raises
Raise(from, error, imports) ==
    /\ pc = from
    /\ pc' = "raised"
    /\ raised' = error
    /\ hiddenimports' = imports
    /\ UNCHANGED <<sys_path, environ, setup_module, result, prev>>
    /\ UNCHANGED inputVars
    /\ UNCHANGED findVars

\* sys.path += search_paths
ExtendSysPath ==
    /\ pc = "start"
    /\ sys_path' = sys_path \o <<toplevel, django_root_dir>>
    /\ pc' = "environ"
    /\ UNCHANGED <<environ, setup_module, hiddenimports, result, raised, prev>>
    /\ UNCHANGED inputVars
    /\ UNCHANGED findVars

\* the settings module chosen without looking at the environment
SettingsModuleDefault(env, root) == Basename(root) \o DotSettings

\* os.environ.get('DJANGO_SETTINGS_MODULE', default_settings_module)
SettingsModule(env, root) ==
    Get(env, "DJANGO_SETTINGS_MODULE", Basename(root) \o DotSettings)

SetSettingsModule ==
    /\ pc = "environ"
    /\ environ' = [DJANGO_SETTINGS_MODULE |-> SettingsModule(environ, django_root_dir)]
    /\ pc' = "setup"
    /\ UNCHANGED <<sys_path, setup_module, hiddenimports, result, raised, prev>>
    /\ UNCHANGED inputVars
    /\ UNCHANGED findVars

\* django.setup() reads the settings named by DJANGO_SETTINGS_MODULE
DjangoSetup ==
    /\ pc = "setup"
    /\ setup_module' = Get(environ, "DJANGO_SETTINGS_MODULE", None)
    /\ pc' = "INSTALLED_APPS"
    /\ UNCHANGED <<sys_path, environ, hiddenimports, result, raised, prev>>
    /\ UNCHANGED inputVars
    /\ UNCHANGED findVars

\* hiddenimports = list(settings.INSTALLED_APPS)
InstalledApps ==
    Step("INSTALLED_APPS", "TEMPLATE_CONTEXT_PROCESSORS", settings.INSTALLED_APPS)

\* list(settings.<name>) when the attribute is there
ListAttr(s, name) == IF HasAttr(s, name) THEN s[name] ELSE <<>>

TemplateContextProcessors ==
    Step("TEMPLATE_CONTEXT_PROCESSORS", "TEMPLATES_OPTIONS",
         hiddenimports \o ListAttr(settings, "TEMPLATE_CONTEXT_PROCESSORS"))

\* for template in templates: ... template.get('OPTIONS', {}).get('context_processors', [])
RECURSIVE OptionsContextProcessors(_)
OptionsContextProcessors(templates) ==
    IF templates = <<>> THEN <<>>
    ELSE Get(Get(Head(templates), "OPTIONS", EmptyDict), "context_processors", <<>>)
         \o OptionsContextProcessors(Tail(templates))

TemplatesOptions ==
    Step("TEMPLATES_OPTIONS", "CACHES",
         hiddenimports \o OptionsContextProcessors(ListAttr(settings, "TEMPLATES")))

\* the two appends made for one cache
CacheImports(cache) ==
    LET backend == Get(cache, "BACKEND", None)
        client_class == Get(Get(cache, "OPTIONS", EmptyDict), "CLIENT_CLASS", None)
    IN  (IF Truthy(backend) THEN <<RemoveClass(backend)>> ELSE <<>>)
        \o (IF Truthy(client_class) THEN <<RemoveClass(client_class)>> ELSE <<>>)

RECURSIVE CachesImports(_)
CachesImports(caches) ==
    IF caches = <<>> THEN <<>>
    ELSE CacheImports(Head(caches)) \o CachesImports(Tail(caches))

Caches ==
    Step("CACHES", "STORAGES", hiddenimports \o CachesImports(ListAttr(settings, "CACHES")))

\* the loop over settings.STORAGES computes cl and appends nothing
Storages ==
    Step("STORAGES", "TEMPLATE_LOADERS", hiddenimports)

TemplateLoaders ==
    Step("TEMPLATE_LOADERS", "ROOT_URLCONF", hiddenimports \o ListAttr(settings, "TEMPLATE_LOADERS"))

\* hiddenimports += [settings.ROOT_URLCONF]
RootUrlconf ==
    \/ /\ HasAttr(settings, "ROOT_URLCONF")
       /\ Step("ROOT_URLCONF", "AUTHENTICATION_BACKENDS", hiddenimports \o <<settings.ROOT_URLCONF>>)
    \/ /\ ~HasAttr(settings, "ROOT_URLCONF")
       /\ Raise("ROOT_URLCONF", "AttributeError", hiddenimports)

\* for cl in settings.<name>: hiddenimports.append(_remove_class(cl))
ClassModules(s, name) == RemoveClassAll(ListAttr(s, name))

AuthenticationBackends ==
    Step("AUTHENTICATION_BACKENDS", "DEFAULT_FILE_STORAGE",
         hiddenimports \o ClassModules(settings, "AUTHENTICATION_BACKENDS"))

DefaultFileStorage ==
    LET cl == Get(settings, "DEFAULT_FILE_STORAGE", None)
    IN  Step("DEFAULT_FILE_STORAGE", "FILE_UPLOAD_HANDLERS",
             hiddenimports \o (IF Truthy(cl) THEN <<RemoveClass(cl)>> ELSE <<>>))

FileUploadHandlers ==
    Step("FILE_UPLOAD_HANDLERS", "MIDDLEWARE_CLASSES",
         hiddenimports \o ClassModules(settings, "FILE_UPLOAD_HANDLERS"))

MiddlewareClasses ==
    Step("MIDDLEWARE_CLASSES", "MIDDLEWARE",
         hiddenimports \o ClassModules(settings, "MIDDLEWARE_CLASSES"))

Middleware ==
    Step("MIDDLEWARE", "TEMPLATES", hiddenimports \o ClassModules(settings, "MIDDLEWARE"))

\* the appends made for one entry of settings.TEMPLATES by the second loop
TemplateImports(templ) ==
    <<RemoveClass(templ["BACKEND"])>>
    \o (IF DictHasAttr(templ, "OPTIONS")
        THEN IF DictHasAttr(templ["OPTIONS"], "context_processors")
             THEN RemoveClassAll(templ["OPTIONS"]["context_processors"])
             ELSE <<>>
        ELSE <<>>)

\* the second loop over settings.TEMPLATES, up to the entry whose
\* templ['BACKEND'] raises KeyError
RECURSIVE TemplatesImports(_, _)
TemplatesImports(templates, imports) ==
    IF templates = <<>> THEN [imports |-> imports, error |-> NoError]
    ELSE IF "BACKEND" \notin DOMAIN Head(templates)
         THEN [imports |-> imports, error |-> "KeyError"]
         ELSE TemplatesImports(Tail(templates), imports \o TemplateImports(Head(templates)))

Templates ==
    LET out == TemplatesImports(ListAttr(settings, "TEMPLATES"), hiddenimports)
    IN  \/ /\ out.error = NoError
           /\ Step("TEMPLATES", "DATABASES", out.imports)
        \/ /\ out.error # NoError
           /\ Raise("TEMPLATES", out.error, out.imports)

\* for v in settings.DATABASES.values(): hiddenimports.append(v['ENGINE'])
RECURSIVE DatabasesImports(_, _)
DatabasesImports(databases, imports) ==
    IF databases = <<>> THEN [imports |-> imports, error |-> NoError]
    ELSE IF "ENGINE" \notin DOMAIN Head(databases)
         THEN [imports |-> imports, error |-> "KeyError"]
         ELSE DatabasesImports(Tail(databases), Append(imports, Head(databases)["ENGINE"]))

Databases ==
    \/ /\ ~HasAttr(settings, "DATABASES")
       /\ Raise("DATABASES", "AttributeError", hiddenimports)
    \/ /\ HasAttr(settings, "DATABASES")
       /\ LET out == DatabasesImports(settings.DATABASES, hiddenimports)
          IN  \/ /\ out.error = NoError
                 /\ Step("DATABASES", "apps", out.imports)
              \/ /\ out.error # NoError
                 /\ Raise("DATABASES", out.error, out.imports)

\* hookutils.collect_submodules(package)
CollectSubmodules(package) == Get(submodules, package, <<>>)

\* templatetags and context processors for each installed app
RECURSIVE AppImports(_)
AppImports(apps) ==
    IF apps = <<>> THEN <<>>
    ELSE LET app_templatetag_module == Head(apps) \o Templatetags
             app_ctx_proc_module == Head(apps) \o ContextProcessors
         IN  <<app_templatetag_module>> \o CollectSubmodules(app_templatetag_module)
             \o <<app_ctx_proc_module>> \o AppImports(Tail(apps))

AppModules ==
    Step("apps", "deduplicate", hiddenimports \o AppImports(settings.INSTALLED_APPS))

\* the list returned as collected, without list(set(...))
DeduplicatedKept(imports) == {imports}

\* list(set(imports))[:-1]: the last element of the set's order is lost
DeduplicatedTruncated(imports) == {SubSeq(o, 1, Len(o) - 1) : o \in Orderings(imports)}

\* list(set(imports)): each element once, in the order the set's hashing gives
Deduplicated(imports) == Orderings(imports)

Deduplicate ==
    \E unique \in Deduplicated(hiddenimports) : Step("deduplicate", "return", unique)

\* return hiddenimports
Return ==
    /\ pc = "return"
    /\ result' = hiddenimports
    /\ pc' = "done"
    /\ UNCHANGED <<sys_path, environ, setup_module, hiddenimports, raised, prev>>
    /\ UNCHANGED inputVars
    /\ UNCHANGED findVars

\* what a caller sees of a finished call
Outcome == [ran |-> TRUE, raised |-> raised, names |-> Range(result)]

\* the decorated function is called again with the same argument: isolated
\* runs it in a new subprocess, whose sys.path and os.environ are fresh
CallAgain ==
    /\ pc \in {"done", "raised"}
    /\ prev' = Outcome
    /\ pc' = "start"
    /\ sys_path' = sys_path0
    /\ environ' = environ0
    /\ setup_module' = None
    /\ hiddenimports' = <<>>
    /\ result' = <<>>
    /\ raised' = NoError
    /\ UNCHANGED inputVars
    /\ UNCHANGED findVars

Next ==
    \/ ExtendSysPath
    \/ SetSettingsModule
    \/ DjangoSetup
    \/ InstalledApps
    \/ TemplateContextProcessors
    \/ TemplatesOptions
    \/ Caches
    \/ Storages
    \/ TemplateLoaders
    \/ RootUrlconf
    \/ AuthenticationBackends
    \/ DefaultFileStorage
    \/ FileUploadHandlers
    \/ MiddlewareClasses
    \/ Middleware
    \/ Templates
    \/ Databases
    \/ AppModules
    \/ Deduplicate
    \/ Return

Spec == Init /\ [][Next]_vars

\* calls repeated with the same inputs
InitAgain ==
    InitWith({ProjectDir}, {ParentDir}, EnvValues, {<<SiteDir>>}, SettingsSet(MaxGuardedAgain))

NextAgain == Next \/ CallAgain

SpecAgain == InitAgain /\ [][NextAgain]_vars

\* calls from the environments and paths a build can start from
RootDirs == {ProjectDir, << <<"m">> >>, << <<"p">>, <<"n">> >>}
InitEnv ==
    InitWith(RootDirs, {ParentDir, SiteDir}, EnvValues,
             {<<>>, <<SiteDir>>, <<SiteDir, ParentDir>>},
             SettingsSet(0) \cup Objects({"INSTALLED_APPS", "ROOT_URLCONF", "DATABASES", "TEMPLATES"}))

SpecEnv == InitEnv /\ [][Next]_vars

TypeOK == pc \in {"start", "environ", "setup", "INSTALLED_APPS", "TEMPLATE_CONTEXT_PROCESSORS",
                  "TEMPLATES_OPTIONS", "CACHES", "STORAGES", "TEMPLATE_LOADERS", "ROOT_URLCONF",
                  "AUTHENTICATION_BACKENDS", "DEFAULT_FILE_STORAGE", "FILE_UPLOAD_HANDLERS",
                  "MIDDLEWARE_CLASSES", "MIDDLEWARE", "TEMPLATES", "DATABASES", "apps",
                  "deduplicate", "return", "done", "raised"}

(***************************************************************************)
(* django_find_root_dir                                                    *)
(***************************************************************************)
SettingsPy == <<"settings", ".", "py">>
SettingsName == <<"settings">>
UrlsPy == <<"urls", ".", "py">>
ManagePy == <<"manage", ".", "py">>
Mysite == <<"mysite">>

\* os.path.dirname(os.path.abspath(CONF['main_script']))
ManageDir == << <<"w">> >>

\* os.path.join(dir, f)
PathJoin(dir, f) == Append(dir, f)

\* os.listdir(dir)
Listdir(tree, dir) ==
    {q[Len(q)] : q \in {r \in DOMAIN tree : Len(r) = Len(dir) + 1 /\ SubSeq(r, 1, Len(dir)) = dir}}

\* os.path.isdir(path)
Isdir(tree, path) == path \in DOMAIN tree /\ tree[path] = "dir"

\* the test without its 'settings' alternative
HasMainFilesPyOnly(names) == SettingsPy \in names /\ UrlsPy \in names

\* ('settings.py' in names or 'settings' in names) and 'urls.py' in names
HasMainFiles(names) == (SettingsPy \in names \/ SettingsName \in names) /\ UrlsPy \in names

\* regular files called names in dir
FilesIn(dir, names) == [q \in {PathJoin(dir, n) : n \in names} |-> "file"]

\* a directory that has both main files
MainDir(path) == (path :> "dir") @@ FilesIn(path, {SettingsPy, UrlsPy})

\* what may be at path, an entry of manage_dir: nothing, a regular file, or
\* a directory of some main files which may itself hold a directory
\* 'settings' that has both main files
EntryTrees(path) ==
    {EmptyDict, path :> "file"}
    \cup { (path :> "dir")
           @@ FilesIn(path, L \cap {SettingsPy, UrlsPy})
           @@ (IF SettingsName \in L THEN MainDir(PathJoin(path, SettingsName)) ELSE EmptyDict) :
           L \in SUBSET {SettingsPy, UrlsPy, SettingsName} }

FileSystems ==
    { (ManageDir :> "dir") @@ FilesIn(ManageDir, {ManagePy} \cup T) @@ a @@ b :
        T \in SUBSET {SettingsPy, UrlsPy},
        a \in EntryTrees(PathJoin(ManageDir, SettingsName)),
        b \in EntryTrees(PathJoin(ManageDir, Mysite)) }

InitFind ==
    /\ fs \in FileSystems
    /\ fpc = "call"
    /\ files = {}
    /\ settings_dir = NoneDir
    /\ django_root_dir = ProjectDir
    /\ toplevel = ParentDir
    /\ environ0 = EmptyDict
    /\ sys_path0 = <<>>
    /\ settings = EmptyDict
    /\ submodules = EmptyDict
    /\ pc = "idle"
    /\ sys_path = <<>>
    /\ environ = EmptyDict
    /\ setup_module = None
    /\ hiddenimports = <<>>
    /\ result = <<>>
    /\ raised = NoError
    /\ prev = [ran |-> FALSE]

\* settings_dir = None; files = set(os.listdir(manage_dir))
ListManageDir ==
    /\ fpc = "call"
    /\ settings_dir' = NoneDir
    /\ files' = Listdir(fs, ManageDir)
    /\ fpc' = "check"
    /\ UNCHANGED <<fs, inputVars, runVars>>

\* the test on manage_dir itself
CheckManageDir ==
    /\ fpc = "check"
    /\ IF HasMainFiles(files)
       THEN settings_dir' = ManageDir /\ fpc' = "return"
       ELSE settings_dir' = settings_dir /\ fpc' = "loop"
    /\ UNCHANGED <<fs, files, inputVars, runVars>>

\* one turn of `for f in files`, a set: any entry not yet visited is next
VisitEntry ==
    /\ fpc = "loop"
    /\ \E f \in files :
         /\ files' = files \ {f}
         /\ IF /\ Isdir(fs, PathJoin(ManageDir, f))
               /\ HasMainFiles(Listdir(fs, PathJoin(ManageDir, f)))
            THEN settings_dir' = PathJoin(ManageDir, f) /\ fpc' = "return"
            ELSE settings_dir' = settings_dir /\ fpc' = "loop"
    /\ UNCHANGED <<fs, inputVars, runVars>>

\* the for loop runs out of entries
LoopExhausted ==
    /\ fpc = "loop"
    /\ files = {}
    /\ fpc' = "return"
    /\ UNCHANGED <<fs, files, settings_dir, inputVars, runVars>>

\* return settings_dir
ReturnSettingsDir ==
    /\ fpc = "return"
    /\ fpc' = "done"
    /\ UNCHANGED <<fs, files, settings_dir, inputVars, runVars>>

NextFind ==
    \/ ListManageDir
    \/ CheckManageDir
    \/ VisitEntry
    \/ LoopExhausted
    \/ ReturnSettingsDir

SpecFind == InitFind /\ [][NextFind]_vars

(***************************************************************************)
(* Properties                                                              *)
(***************************************************************************)
Returned == pc = "done"

\* s without its last dot-separated component: what is left of the last dot
StripLast(s) ==
    IF \E i \in DOMAIN s : s[i] = Dot
    THEN LET last == CHOOSE k \in DOMAIN s : s[k] = Dot /\ \A j \in (k + 1)..Len(s) : s[j] # Dot
         IN  SubSeq(s, 1, last - 1)
    ELSE <<>>

\* the class paths of the settings whose values name classes
ClassPaths(s) ==
    UNION {Range(ListAttr(s, name)) : name \in {"AUTHENTICATION_BACKENDS", "FILE_UPLOAD_HANDLERS",
                                                "MIDDLEWARE_CLASSES", "MIDDLEWARE"}}
    \cup {c["BACKEND"] : c \in {d \in Range(ListAttr(s, "CACHES")) : "BACKEND" \in DOMAIN d}}
    \cup {c["OPTIONS"]["CLIENT_CLASS"] :
            c \in {d \in Range(ListAttr(s, "CACHES")) :
                     "OPTIONS" \in DOMAIN d /\ "CLIENT_CLASS" \in DOMAIN d["OPTIONS"]}}
    \cup {t["BACKEND"] : t \in {d \in Range(ListAttr(s, "TEMPLATES")) : "BACKEND" \in DOMAIN d}}
    \cup (IF HasAttr(s, "DEFAULT_FILE_STORAGE") /\ s["DEFAULT_FILE_STORAGE"] \notin {None, <<>>}
          THEN {s["DEFAULT_FILE_STORAGE"]} ELSE {})

\* the context processors listed in the OPTIONS of the entries of TEMPLATES
TemplateContextProcessorPaths(s) ==
    UNION {Range(t["OPTIONS"]["context_processors"]) :
             t \in {d \in Range(ListAttr(s, "TEMPLATES")) :
                      "OPTIONS" \in DOMAIN d /\ "context_processors" \in DOMAIN d["OPTIONS"]}}

\* C1: whenever django_dottedstring_imports returns, no module name is at two
\* positions of the returned list
C1_DuplicateFree == Returned => NoDuplicates(result)

\* the call returned for settings that list an app twice and whose ROOT_URLCONF
\* is also the module of a class of another setting
C1_Witness ==
    /\ Returned
    /\ Len(settings.INSTALLED_APPS) = 2
    /\ settings.INSTALLED_APPS[1] = settings.INSTALLED_APPS[2]
    /\ \E c \in ClassPaths(settings) : StripLast(c) = settings.ROOT_URLCONF
    /\ Len(result) >= 4

\* C2: a call repeated with the same settings, django_root_dir, environment and
\* collect_submodules results ends as the call before it did, with the same
\* set of module names
C2_Deterministic ==
    (pc \in {"done", "raised"} /\ prev.ran) =>
        /\ prev.raised = raised
        /\ prev.names = Range(result)

\* a repeated call returned at least three names
C2_Witness == Returned /\ prev.ran /\ Cardinality(Range(result)) >= 3

\* C3: whichever configuration attributes or per-entry keys are absent, the
\* function does not raise
C3_MissingKeysSkipped == raised = NoError

\* C4: django_find_root_dir returns None exactly when neither manage_dir nor
\* one of its immediate subdirectories has the main files; otherwise it
\* returns such a directory, and manage_dir itself whenever manage_dir has them
Candidates ==
    {ManageDir} \cup {d \in DOMAIN fs : Len(d) = Len(ManageDir) + 1
                                         /\ SubSeq(d, 1, Len(ManageDir)) = ManageDir
                                         /\ fs[d] = "dir"}
Entries(d) == {q[Len(q)] : q \in {r \in DOMAIN fs : Len(r) = Len(d) + 1 /\ SubSeq(r, 1, Len(d)) = d}}
Qualifies(d) ==
    /\ UrlsPy \in Entries(d)
    /\ SettingsPy \in Entries(d) \/ SettingsName \in Entries(d)
C4_FindRootDir ==
    fpc = "done" =>
        /\ settings_dir = NoneDir <=> ~\E d \in Candidates : Qualifies(d)
        /\ settings_dir # NoneDir => settings_dir \in Candidates /\ Qualifies(settings_dir)
        /\ Qualifies(ManageDir) => settings_dir = ManageDir

\* a subdirectory was returned although a directory one level deeper has the
\* main files too
C4_Witness ==
    /\ fpc = "done"
    /\ settings_dir \notin {NoneDir, ManageDir}
    /\ \E d \in DOMAIN fs : Len(d) = Len(ManageDir) + 2 /\ fs[d] = "dir" /\ Qualifies(d)

C6_ContextProcessorModules ==
    Returned => \A p \in TemplateContextProcessorPaths(settings) : StripLast(p) \in Range(result)

\* C7: a DJANGO_SETTINGS_MODULE set before the call is left as it is and is the
\* one django.setup() reads; unset, it is basename(django_root_dir) +
\* '.settings' when django.setup() runs; the entries of sys.path keep their
\* positions and the two search paths come after them
SetBefore == "DJANGO_SETTINGS_MODULE" \in DOMAIN environ0
PastSetup == pc \notin {"start", "environ", "setup"}
C7_SettingsModuleHonoured ==
    /\ SubSeq(sys_path, 1, Len(sys_path0)) = sys_path0
    /\ pc # "start" => sys_path = sys_path0 \o <<toplevel, django_root_dir>>
    /\ SetBefore => environ = environ0
    /\ PastSetup =>
         IF SetBefore
         THEN setup_module = environ0["DJANGO_SETTINGS_MODULE"]
         ELSE /\ setup_module = django_root_dir[Len(django_root_dir)] \o <<".", "settings">>
              /\ environ = [DJANGO_SETTINGS_MODULE |-> setup_module]

\* the call returned with an override that differs from the default module
\* and a sys.path that had two entries
C7_Witness ==
    /\ Returned
    /\ SetBefore
    /\ environ0["DJANGO_SETTINGS_MODULE"] # django_root_dir[Len(django_root_dir)] \o <<".", "settings">>
    /\ Len(sys_path0) = 2
    /\ Len(sys_path) = 4

\* C8: for settings whose configured values are non-empty strings, the
\* returned list never holds the empty string
ValuesNonEmpty(s) ==
    /\ <<>> \notin ClassPaths(s)
    /\ Get(s, "DEFAULT_FILE_STORAGE", NestedClass) \notin {None, <<>>}
    /\ <<>> \notin Range(s.INSTALLED_APPS) \cup Range(ListAttr(s, "TEMPLATE_LOADERS"))
                     \cup Range(ListAttr(s, "TEMPLATE_CONTEXT_PROCESSORS"))
                     \cup TemplateContextProcessorPaths(s)
C8_NoEmptyName == (Returned /\ ValuesNonEmpty(settings)) => <<>> \notin Range(result)

====
